---- MODULE Spec2Model ----
(***************************************************************************)
(* Model of the FormValidator class of src/script.js: the seven field      *)
(* rules, the DOM bookkeeping (classList, textContent, style.display), the *)
(* submit handler and the success auto-reset timer.                        *)
(*                                                                         *)
(* Strings are sequences of one-character strings, so that trim, the       *)
(* regular expressions, parseInt and the digit stripping are computed      *)
(* character by character.                                                 *)
(***************************************************************************)
EXTENDS Integers, Sequences, FiniteSets, TLC

(* ------------------------------------------------------------------ *)
(* Characters and JavaScript string helpers                            *)
(* ------------------------------------------------------------------ *)

UpperCase ==
    {"A","B","C","D","E","F","G","H","I","J","K","L","M",
     "N","O","P","Q","R","S","T","U","V","W","X","Y","Z"}

LowerCase ==
    {"a","b","c","d","e","f","g","h","i","j","k","l","m",
     "n","o","p","q","r","s","t","u","v","w","x","y","z"}

Digit ==
    {"0","1","2","3","4","5","6","7","8","9"}

WhiteSpace ==
    {" ", "\t"}

SpecialChar ==
    {"!","@","#","$","%","^","&","*","(",")",",",".","?","\"",":","{","}","|","<",">"}

DigitVal ==
    [c \in Digit |->
        CASE c = "0" -> 0 [] c = "1" -> 1 [] c = "2" -> 2 [] c = "3" -> 3
          [] c = "4" -> 4 [] c = "5" -> 5 [] c = "6" -> 6 [] c = "7" -> 7
          [] c = "8" -> 8 [] c = "9" -> 9]

HexDigit ==
    Digit \cup {"a","b","c","d","e","f","A","B","C","D","E","F"}

HexVal(c) ==
    CASE c \in Digit -> DigitVal[c]
      [] c \in {"a","A"} -> 10 [] c \in {"b","B"} -> 11
      [] c \in {"c","C"} -> 12 [] c \in {"d","D"} -> 13
      [] c \in {"e","E"} -> 14 [] c \in {"f","F"} -> 15

RECURSIVE TrimLeft(_)
TrimLeft(s) ==
    IF s # <<>> /\ Head(s) \in WhiteSpace THEN TrimLeft(Tail(s)) ELSE s

RECURSIVE TrimRight(_)
TrimRight(s) ==
    IF s # <<>> /\ s[Len(s)] \in WhiteSpace
      THEN TrimRight(SubSeq(s, 1, Len(s) - 1))
      ELSE s

\* String.prototype.trim
trim(s) ==
    TrimRight(TrimLeft(s))

\* regex.test(s) for a one-character class: some character of s is in the class
TestClass(class, s) ==
    \E i \in 1..Len(s) : s[i] \in class

\* /^[a-zA-Z\s]+$/.test(s)
NameRegexTest(s) ==
    /\ Len(s) >= 1
    /\ \A i \in 1..Len(s) : s[i] \in (UpperCase \cup LowerCase \cup WhiteSpace)

\* a non-empty run of [^\s@]
NoSpaceAt(s) ==
    /\ Len(s) >= 1
    /\ \A i \in 1..Len(s) : s[i] \notin (WhiteSpace \cup {"@"})

\* /^[^\s@]+@[^\s@]+\.[^\s@]+$/.test(s)
emailRegexTest(s) ==
    \E i \in 1..Len(s) : \E j \in 1..Len(s) :
        /\ i < j
        /\ s[i] = "@"
        /\ s[j] = "."
        /\ NoSpaceAt(SubSeq(s, 1, i - 1))
        /\ NoSpaceAt(SubSeq(s, i + 1, j - 1))
        /\ NoSpaceAt(SubSeq(s, j + 1, Len(s)))

\* value.replace(/\D/g, '')
digitsOnly(s) ==
    SelectSeq(s, LAMBDA c : c \in Digit)

NaN ==
    [nan |-> TRUE, n |-> 0]

Num(k) ==
    [nan |-> FALSE, n |-> k]

RECURSIVE PrefixIn(_, _)
\* the longest prefix of s made of characters of class
PrefixIn(class, s) ==
    IF s # <<>> /\ Head(s) \in class
      THEN <<Head(s)>> \o PrefixIn(class, Tail(s))
      ELSE <<>>

RECURSIVE DecValue(_)
DecValue(s) ==
    IF s = <<>> THEN 0
    ELSE 10 * DecValue(SubSeq(s, 1, Len(s) - 1)) + DigitVal[s[Len(s)]]

RECURSIVE HexValue(_)
HexValue(s) ==
    IF s = <<>> THEN 0
    ELSE 16 * HexValue(SubSeq(s, 1, Len(s) - 1)) + HexVal(s[Len(s)])

\* parseInt(s) with no radix: leading white space is skipped, an optional
\* sign is read, a 0x/0X prefix selects radix 16, and the longest prefix of
\* digits is converted; NaN when that prefix is empty.
parseInt(s) ==
    LET t    == TrimLeft(s)
        neg  == t # <<>> /\ Head(t) = "-"
        u    == IF t # <<>> /\ Head(t) \in {"+", "-"} THEN Tail(t) ELSE t
        hex  == Len(u) >= 2 /\ u[1] = "0" /\ u[2] \in {"x", "X"}
        body == IF hex THEN PrefixIn(HexDigit, SubSeq(u, 3, Len(u)))
                       ELSE PrefixIn(Digit, u)
        mag  == IF hex THEN HexValue(body) ELSE DecValue(body)
    IN  IF body = <<>> THEN NaN
        ELSE Num(IF neg THEN 0 - mag ELSE mag)

(* ------------------------------------------------------------------ *)
(* The form: fields, elements, messages                                *)
(* ------------------------------------------------------------------ *)

\* this.fields, in the order of the constructor and of validateAllFields
FieldOrder ==
    <<"fullName", "email", "password", "confirmPassword", "age", "phone", "terms">>

Fields ==
    {FieldOrder[i] : i \in 1..Len(FieldOrder)}

TextFields ==
    Fields \ {"terms"}

\* this.form.reset(): every control back to its default, empty and unchecked
DefaultValue ==
    [f \in TextFields |-> <<>>]

\* this.errorElements: the id of the error slot paired with each field
errorElements ==
    [f \in Fields |->
        CASE f = "fullName" -> "fullNameError"
          [] f = "email" -> "emailError"
          [] f = "password" -> "passwordError"
          [] f = "confirmPassword" -> "confirmPasswordError"
          [] f = "age" -> "ageError"
          [] f = "phone" -> "phoneError"
          [] f = "terms" -> "termsError"]

\* every element the constructor looks up
AllElements ==
    Fields \cup {errorElements[f] : f \in Fields} \cup {"registrationForm", "formSuccess"}

(* ------------------------------------------------------------------ *)
(* Field rules: the chain of checks of each validate* method, as the   *)
(* message it passes to showError ("" when every check passes)         *)
(* ------------------------------------------------------------------ *)

fullNameRule(raw) ==
    LET value == trim(raw)
    IN  IF value = <<>> THEN "Full name is required"
        ELSE IF Len(value) < 2 THEN "Full name must be at least 2 characters"
        ELSE IF ~NameRegexTest(value) THEN "Full name can only contain letters and spaces"
        ELSE ""

emailRule(raw) ==
    LET value == trim(raw)
    IN  IF value = <<>> THEN "Email address is required"
        ELSE IF ~emailRegexTest(value) THEN "Please enter a valid email address"
        ELSE ""

\* passwordRule with the uppercase check placed before the length check
passwordRuleUpperFirst(value) ==
    LET hasUpperCase   == TestClass(UpperCase, value)
        hasLowerCase   == TestClass(LowerCase, value)
        hasNumbers     == TestClass(Digit, value)
        hasSpecialChar == TestClass(SpecialChar, value)
    IN  IF value = <<>> THEN "Password is required"
        ELSE IF ~hasUpperCase THEN "Password must contain at least one uppercase letter"
        ELSE IF Len(value) < 8 THEN "Password must be at least 8 characters long"
        ELSE IF ~hasLowerCase THEN "Password must contain at least one lowercase letter"
        ELSE IF ~hasNumbers THEN "Password must contain at least one number"
        ELSE IF ~hasSpecialChar THEN "Password must contain at least one special character"
        ELSE ""

passwordRule(value) ==
    LET hasUpperCase   == TestClass(UpperCase, value)
        hasLowerCase   == TestClass(LowerCase, value)
        hasNumbers     == TestClass(Digit, value)
        hasSpecialChar == TestClass(SpecialChar, value)
    IN  IF value = <<>> THEN "Password is required"
        ELSE IF Len(value) < 8 THEN "Password must be at least 8 characters long"
        ELSE IF ~hasUpperCase THEN "Password must contain at least one uppercase letter"
        ELSE IF ~hasLowerCase THEN "Password must contain at least one lowercase letter"
        ELSE IF ~hasNumbers THEN "Password must contain at least one number"
        ELSE IF ~hasSpecialChar THEN "Password must contain at least one special character"
        ELSE ""

\* validateConfirmPassword that also wants the password to pass its own rule
confirmPasswordRuleOfValid(value, passwordValue) ==
    IF value = <<>> THEN "Please confirm your password"
    ELSE IF value # passwordValue \/ passwordRule(passwordValue) # ""
      THEN "Passwords do not match"
    ELSE ""

confirmPasswordRule(value, passwordValue) ==
    IF value = <<>> THEN "Please confirm your password"
    ELSE IF value # passwordValue THEN "Passwords do not match"
    ELSE ""

\* ageRule with both comparisons off by one (<= 13, >= 120)
ageRuleOffByOne(raw) ==
    LET value == parseInt(raw)
    IN  IF raw = <<>> THEN "Age is required"
        ELSE IF value.nan THEN "Please enter a valid age"
        ELSE IF value.n <= 13 THEN "You must be at least 13 years old"
        ELSE IF value.n >= 120 THEN "Please enter a valid age"
        ELSE ""

ageRule(raw) ==
    LET value == parseInt(raw)
    IN  IF raw = <<>> THEN "Age is required"
        ELSE IF value.nan THEN "Please enter a valid age"
        ELSE IF value.n < 13 THEN "You must be at least 13 years old"
        ELSE IF value.n > 120 THEN "Please enter a valid age"
        ELSE ""

phoneRule(raw) ==
    LET value == trim(raw)
    IN  IF value = <<>> THEN ""
        ELSE IF Len(digitsOnly(value)) < 10 THEN "Phone number must have at least 10 digits"
        ELSE IF Len(digitsOnly(value)) > 15 THEN "Phone number is too long"
        ELSE ""

termsRule(isChecked) ==
    IF ~isChecked THEN "You must agree to the Terms and Conditions" ELSE ""

\* the message of field f's rule on the values held by state s
RuleMessage(s, f) ==
    CASE f = "fullName" -> fullNameRule(s.value[f])
      [] f = "email" -> emailRule(s.value[f])
      [] f = "password" -> passwordRule(s.value[f])
      [] f = "confirmPassword" -> confirmPasswordRule(s.value[f], s.value["password"])
      [] f = "age" -> ageRule(s.value[f])
      [] f = "phone" -> phoneRule(s.value[f])
      [] f = "terms" -> termsRule(s.checked)

(* ------------------------------------------------------------------ *)
(* DOM writes.  A state s is a record of the DOM properties the class  *)
(* reads and writes; a call yields the new state, the returned value   *)
(* and whether a TypeError was thrown (access through a null element). *)
(* ------------------------------------------------------------------ *)

showError(s, fieldName, message) ==
    [s EXCEPT
        !.classList[fieldName] =
            IF fieldName \in s.present THEN (@ \cup {"error"}) \ {"success"} ELSE @,
        !.textContent[fieldName] =
            IF errorElements[fieldName] \in s.present THEN message ELSE @]

\* clearError without the write to the message slot
clearErrorKeepText(s, fieldName) ==
    [s EXCEPT
        !.classList[fieldName] =
            IF fieldName \in s.present THEN @ \ {"error", "success"} ELSE @,
        !.cleared = @ \cup {fieldName}]

clearError(s, fieldName) ==
    [s EXCEPT
        !.classList[fieldName] =
            IF fieldName \in s.present THEN @ \ {"error", "success"} ELSE @,
        !.textContent[fieldName] =
            IF errorElements[fieldName] \in s.present THEN "" ELSE @,
        !.cleared = @ \cup {fieldName}]

\* The class body defines showSuccess twice (lines 576 and 612); the later
\* definition replaces the earlier one, so every call this.showSuccess(...)
\* runs the zero-argument body and ignores its argument.
showSuccess(s) ==
    IF "registrationForm" \notin s.present
      THEN [st |-> s, thrown |-> TRUE]
    ELSE IF "formSuccess" \notin s.present
      THEN [st |-> [s EXCEPT !.formDisplay = "none"], thrown |-> TRUE]
    ELSE [st |-> [s EXCEPT !.formDisplay = "none",
                           !.successDisplay = "block",
                           !.timers = @ + 1],
          thrown |-> FALSE]

\* return true after this.showSuccess(fieldName), whose outcome is r
ReturnTrue(r) ==
    [st |-> r.st, ret |-> TRUE, thrown |-> r.thrown]

\* the tail of a validate* method once its checks gave message m: showError
\* and false, or else clearError or showSuccess and true
Report(s, f, m, usesClearError) ==
    IF m # ""
      THEN [st |-> showError(s, f, m), ret |-> FALSE, thrown |-> FALSE]
    ELSE IF usesClearError
      THEN [st |-> clearError(s, f), ret |-> TRUE, thrown |-> FALSE]
    ELSE ReturnTrue(showSuccess(s))

\* a validate* method: read through this.fields[f], check, report
Validate(s, f, usesClearError) ==
    IF f \notin s.present
      THEN [st |-> s, ret |-> FALSE, thrown |-> TRUE]
      ELSE Report(s, f, RuleMessage(s, f), usesClearError)

validateFullName(s) ==
    Validate(s, "fullName", FALSE)

validateEmail(s) ==
    Validate(s, "email", FALSE)

validatePassword(s) ==
    Validate(s, "password", FALSE)

\* reads this.fields.confirmPassword.value, then this.fields.password.value
\* validateConfirmPassword that rejects the confirmation while the password
\* field carries the error class
validateConfirmPasswordAfterPassword(s) ==
    IF "password" \notin s.present
      THEN [st |-> s, ret |-> FALSE, thrown |-> TRUE]
    ELSE IF "error" \in s.classList["password"]
      THEN [st |-> showError(s, "confirmPassword", "Passwords do not match"),
            ret |-> FALSE, thrown |-> FALSE]
    ELSE Validate(s, "confirmPassword", FALSE)

validateConfirmPassword(s) ==
    IF "password" \notin s.present
      THEN [st |-> s, ret |-> FALSE, thrown |-> TRUE]
      ELSE Validate(s, "confirmPassword", FALSE)

validateAge(s) ==
    Validate(s, "age", FALSE)

\* an empty phone is reported with clearError, a well-formed one with showSuccess
validatePhone(s) ==
    Validate(s, "phone", "phone" \in s.present /\ trim(s.value["phone"]) = <<>>)

validateTerms(s) ==
    Validate(s, "terms", TRUE)

validateField(s, f) ==
    CASE f = "fullName" -> validateFullName(s)
      [] f = "email" -> validateEmail(s)
      [] f = "password" -> validatePassword(s)
      [] f = "confirmPassword" -> validateConfirmPassword(s)
      [] f = "age" -> validateAge(s)
      [] f = "phone" -> validatePhone(s)
      [] f = "terms" -> validateTerms(s)

\* the array built so far, with the outcome r of one more element
Collect(acc, r) ==
    [st |-> r.st, validations |-> Append(acc.validations, r.ret), thrown |-> r.thrown]

RECURSIVE ValidateFrom(_, _)
\* the array literal of validateAllFields from its i-th element on: the
\* calls run in order, each on the state the previous one left; a throw
\* abandons the rest
ValidateFrom(acc, i) ==
    IF acc.thrown \/ i > Len(FieldOrder) THEN acc
    ELSE ValidateFrom(Collect(acc, validateField(acc.st, FieldOrder[i])), i + 1)

\* every written as some: true as soon as one validation is true
some(a) ==
    [st |-> a.st,
     validations |-> a.validations,
     ret |-> \E i \in 1..Len(a.validations) : a.validations[i] = TRUE,
     thrown |-> a.thrown]

\* validations.every(validation => validation === true)
every(a) ==
    [st |-> a.st,
     validations |-> a.validations,
     ret |-> \A i \in 1..Len(a.validations) : a.validations[i] = TRUE,
     thrown |-> a.thrown]

RECURSIVE ValidateUntilFalse(_, _)
\* the validators chained with &&: the first false ends the evaluation
ValidateUntilFalse(acc, i) ==
    IF acc.thrown \/ i > Len(FieldOrder) THEN acc
    ELSE IF acc.validations # <<>> /\ ~acc.validations[Len(acc.validations)] THEN acc
    ELSE ValidateUntilFalse(Collect(acc, validateField(acc.st, FieldOrder[i])), i + 1)

validateAllFieldsShortCircuit(s) ==
    every(ValidateUntilFalse([st |-> s, validations |-> <<>>, thrown |-> FALSE], 1))

validateAllFields(s) ==
    every(ValidateFrom([st |-> s, validations |-> <<>>, thrown |-> FALSE], 1))

\* document.querySelector('.error'): the first element, in document order,
\* carrying the class; the fields are laid out in the order of this.fields
firstErrorField(s) ==
    LET idx == {i \in 1..Len(FieldOrder) : "error" \in s.classList[FieldOrder[i]]}
    IN  IF idx = {} THEN "none"
        ELSE FieldOrder[CHOOSE i \in idx : \A j \in idx : i <= j]

\* showFormErrors: the element it scrolls to and focuses
showFormErrors(s) ==
    firstErrorField(s)

\* handleSubmit's branch on isValid: v is the outcome of validateAllFields()
\* and r that of showSuccess() on the state it left
Branch(v, r) ==
    IF v.thrown
      THEN [st |-> v.st, isValid |-> FALSE, thrown |-> TRUE, focus |-> "none"]
    ELSE IF v.ret
      THEN [st |-> r.st, isValid |-> TRUE, thrown |-> r.thrown, focus |-> "none"]
    ELSE [st |-> v.st, isValid |-> FALSE, thrown |-> FALSE,
          focus |-> showFormErrors(v.st)]

AfterValidation(v) ==
    Branch(v, showSuccess(v.st))

handleSubmit(s) ==
    AfterValidation(validateAllFields(s))

\* resetForm without its loop over Object.keys(this.fields)
resetFormNoClear(s) ==
    IF "registrationForm" \notin s.present
      THEN [st |-> s, thrown |-> TRUE]
      ELSE [st |-> [s EXCEPT
                      !.value = DefaultValue,
                      !.checked = FALSE,
                      !.formDisplay = "block",
                      !.successDisplay =
                          IF "formSuccess" \in s.present THEN "none" ELSE @],
            thrown |-> "formSuccess" \notin s.present]

\* resetForm: form.reset() puts every control back to its default (empty,
\* unchecked); clearError runs for every field, each call writing only its
\* own field's class and slot; then the views are swapped back, the last
\* write throwing when formSuccess is absent
resetForm(s) ==
    IF "registrationForm" \notin s.present
      THEN [st |-> s, thrown |-> TRUE]
      ELSE [st |-> [s EXCEPT
                      !.value = DefaultValue,
                      !.checked = FALSE,
                      !.classList = [f \in Fields |-> clearError(s, f).classList[f]],
                      !.textContent = [f \in Fields |-> clearError(s, f).textContent[f]],
                      !.cleared = @ \cup Fields,
                      !.formDisplay = "block",
                      !.successDisplay =
                          IF "formSuccess" \in s.present THEN "none" ELSE @],
            thrown |-> "formSuccess" \notin s.present]

(* ------------------------------------------------------------------ *)
(* State                                                               *)
(* ------------------------------------------------------------------ *)

VARIABLES
    value,           \* fields[f].value of the six text inputs
    checked,         \* fields.terms.checked
    classList,       \* fields[f].classList, restricted to "error" and "success"
    textContent,     \* errorElements[f].textContent
    formDisplay,     \* form.style.display
    successDisplay,  \* formSuccess.style.display
    timers,          \* number of pending setTimeout(resetForm, 5000) callbacks
    present,         \* the elements the constructor's getElement calls found
    cleared,         \* the fields the last handler called clearError for
    last             \* the handler that ran last, with its result

\* the FAQ section
VARIABLES
    faqAnswers,      \* the questions whose data-target names an existing element
    questionActive,  \* the .faq-question elements carrying the class 'active'
    answerActive,    \* the answers carrying the class 'active', by question
    faqLast          \* the question clicked last, whether it was active and
                     \* whether another one was

formVars ==
    <<value, checked, classList, textContent, formDisplay, successDisplay,
      timers, present, cleared, last>>

faqVars ==
    <<faqAnswers, questionActive, answerActive, faqLast>>

\* the counter game
VARIABLES
    count,           \* this.count
    counterValue,    \* counterValue.textContent
    counterMessage,  \* counterMessage.textContent
    messageTimers,   \* pending setTimeout callbacks that empty counterMessage
    transform,       \* counterValue.style.transform
    scaleTimers,     \* pending setTimeout callbacks that set scale(1)
    counterLast      \* the counter listener or callback that ran last

counterVars ==
    <<count, counterValue, counterMessage, messageTimers, transform,
      scaleTimers, counterLast>>

\* the tabbed interface
VARIABLES
    tabPanels,       \* the ids of the .tab-panel elements of the page
    buttonActive,    \* the .tab-btn elements carrying the class 'active'
    panelActive,     \* the .tab-panel elements carrying it, by id
    tabLast          \* the button clicked last, and whether a button or a
                     \* panel other than its own was active

tabVars ==
    <<tabPanels, buttonActive, panelActive, tabLast>>

\* the theme toggle
VARIABLES
    themeStored,     \* localStorage.getItem('theme'), "null" when there is none
    currentTheme,    \* this.currentTheme
    dataTheme,       \* the data-theme attribute of document.documentElement
    themeIconText,   \* themeIcon.textContent
    ariaLabel,       \* the aria-label attribute of themeToggle
    themePresent,    \* which of themeToggle and themeIcon the page has
    themeLast        \* the theme event that came last, and the theme and the
                     \* stored value before it

themeVars ==
    <<themeStored, currentTheme, dataTheme, themeIconText, ariaLabel,
      themePresent, themeLast>>

vars ==
    <<formVars, faqVars, counterVars, tabVars, themeVars>>

\* pending auto-reset timers are capped so that the state space is finite
MaxTimers ==
    7

\* what the user types into each text input; the phone, which is optional,
\* is left empty here and is exercised by RuleInputs and ValidProfile
Typed ==
    [f \in TextFields |->
        CASE f = "fullName" -> {<<"J","o">>}
          [] f = "email" -> {<<"a","@","b",".","c">>}
          [] f = "password" -> {<<"A","b","c","d","e","f","1","!">>}
          [] f = "confirmPassword" -> {<<"A","b","c","d","e","f","1","!">>}
          [] f = "age" -> {<<"1","3">>}
          [] f = "phone" -> {}]

\* the DOM properties as one record, the argument of the methods above
Cur ==
    [value |-> value, checked |-> checked, classList |-> classList,
     textContent |-> textContent, formDisplay |-> formDisplay,
     successDisplay |-> successDisplay, timers |-> timers, present |-> present,
     cleared |-> {}]

\* the variables take the properties of record s
Becomes(s) ==
    /\ value' = s.value
    /\ checked' = s.checked
    /\ classList' = s.classList
    /\ textContent' = s.textContent
    /\ formDisplay' = s.formDisplay
    /\ successDisplay' = s.successDisplay
    /\ timers' = s.timers
    /\ present' = s.present
    /\ cleared' = s.cleared
    /\ UNCHANGED <<faqVars, counterVars, tabVars, themeVars>>

Ran(op, f, ret, thrown, focus) ==
    [op |-> op, field |-> f, ret |-> ret, thrown |-> thrown, focus |-> focus]

\* how many .faq-question elements the page has
NumQuestions ==
    4

\* this.faqQuestions, in document order
faqQuestions ==
    1..NumQuestions

\* the FAQ section with every answer in the page and nothing open
FAQClosed ==
    /\ faqAnswers = faqQuestions
    /\ questionActive = {}
    /\ answerActive = {}
    /\ faqLast = [op |-> "init", question |-> 0, wasActive |-> FALSE,
                  othersActive |-> FALSE]

\* controls holding vals and chk, no class, no message, no inline display
\* style, the elements els found by the constructor
FormWith(vals, chk, els) ==
    /\ value = vals
    /\ checked = chk
    /\ classList = [f \in Fields |-> {}]
    /\ textContent = [f \in Fields |-> ""]
    /\ formDisplay = ""
    /\ successDisplay = ""
    /\ timers = 0
    /\ present = els
    /\ cleared = {}
    /\ last = Ran("init", "none", FALSE, FALSE, "none")

\* the counter after its constructor: zero, displayed, no message
CounterZero ==
    /\ count = 0
    /\ counterValue = 0
    /\ counterMessage = <<>>
    /\ messageTimers = 0
    /\ transform = ""
    /\ scaleTimers = 0
    /\ counterLast = "init"

\* how many .tab-btn elements the page has
NumTabs ==
    3

\* this.tabButtons, in document order
tabButtons ==
    1..NumTabs

\* the ids a .tab-panel element can have: the one each button names with
\* data-tab, written as the button, and 0, which no button names
PanelIds ==
    0..NumTabs

\* the tabs with a panel for every button and nothing active
TabsIdle ==
    /\ tabPanels = tabButtons
    /\ buttonActive = {}
    /\ panelActive = {}
    /\ tabLast = [op |-> "init", button |-> 0, othersActive |-> FALSE]

\* the theme after its constructor, which found its two elements and
\* localStorage holding the value stored
ThemeLoaded(stored, found) ==
    /\ themeStored = stored
    /\ currentTheme = (IF stored \in {"null", ""} THEN "light" ELSE stored)
    /\ dataTheme = currentTheme
    /\ themeIconText =
          IF "themeIcon" \notin found THEN ""
          ELSE IF currentTheme = "light" THEN "moon" ELSE "sun"
    /\ ariaLabel =
          IF "themeToggle" \notin found THEN ""
          ELSE IF currentTheme = "light" THEN "Switch to dark mode"
          ELSE "Switch to light mode"
    /\ themePresent = found
    /\ themeLast = [op |-> "init", previous |-> "none", storedBefore |-> "none"]

\* the page after the constructors, its form as FormWith(vals, chk, els)
InitWith(vals, chk, els) ==
    /\ FormWith(vals, chk, els)
    /\ FAQClosed
    /\ CounterZero
    /\ TabsIdle
    /\ ThemeLoaded("null", {"themeToggle", "themeIcon"})

\* the state the constructor leaves
Init ==
    InitWith(DefaultValue, FALSE, AllElements)

\* a listener ran to its outcome r: the DOM is as it left it
Handled(op, f, r) ==
    /\ r.st.timers <= MaxTimers
    /\ Becomes(r.st)
    /\ last' = Ran(op, f, IF op = "timer" THEN FALSE ELSE r.ret, r.thrown, "none")

\* the submit listener ran to its outcome r
Submitted(r) ==
    /\ r.st.timers <= MaxTimers
    /\ Becomes(r.st)
    /\ last' = Ran("submit", "none", r.isValid, r.thrown, r.focus)

(* ------------------------------------------------------------------ *)
(* Events                                                              *)
(* ------------------------------------------------------------------ *)

\* an 'input' listener that also calls clearTimeout on the pending resets
InputCancelsReset(f, v) ==
    /\ f \in present
    /\ v # value[f]
    /\ Becomes(clearError([Cur EXCEPT !.value[f] = v, !.timers = 0], f))
    /\ last' = Ran("input", f, FALSE, FALSE, "none")

\* the user edits text input f; its 'input' listener runs clearError(f)
Input(f, v) ==
    /\ f \in present
    /\ v # value[f]
    /\ Becomes(clearError([Cur EXCEPT !.value[f] = v], f))
    /\ last' = Ran("input", f, FALSE, FALSE, "none")

\* text input f loses focus; its 'blur' listener runs validate<f>()
Blur(f) ==
    /\ f \in present
    /\ Handled("blur", f, validateField(Cur, f))

\* a 'change' listener that runs clearError('terms') like the 'input'
\* listeners of the text fields
ChangeClears ==
    /\ "terms" \in present
    /\ Becomes(clearError([Cur EXCEPT !.checked = ~checked], "terms"))
    /\ last' = Ran("change", "terms", FALSE, FALSE, "none")

\* the user toggles the checkbox; its 'change' listener runs validateTerms()
Change ==
    /\ "terms" \in present
    /\ Handled("change", "terms", validateTerms([Cur EXCEPT !.checked = ~checked]))

\* the form is submitted; its 'submit' listener runs handleSubmit(e)
Submit ==
    /\ "registrationForm" \in present
    /\ Submitted(handleSubmit(Cur))

\* one pending timer fires and runs resetForm()
TimerFires ==
    /\ timers > 0
    /\ Handled("timer", "none", resetForm([Cur EXCEPT !.timers = @ - 1]))

InputAny ==
    \E f \in TextFields : \E v \in Typed[f] \cup {<<>>} : Input(f, v)

BlurAny ==
    \E f \in TextFields : Blur(f)

Next ==
    \/ InputAny
    \/ BlurAny
    \/ Change
    \/ Submit
    \/ TimerFires

Spec ==
    Init /\ [][Next]_vars

(* ------------------------------------------------------------------ *)
(* The rules on their own: one field holds a test input, the others a  *)
(* profile, and one handler is applied                                 *)
(* ------------------------------------------------------------------ *)

\* the inputs each rule is tried on: the boundaries of every check
RuleInputs ==
    [f \in TextFields |->
        CASE f = "fullName" ->
               {<<>>,
                <<" ">>,
                <<"J">>,
                <<"J"," ">>,
                <<"J","o">>,
                <<" ","J","o"," ">>,
                <<"J","o","3">>,
                <<"J","3">>,
                <<"3">>,
                <<"J","o"," ","A","n","n">>,
                <<"J","o","-","A","n","n">>}
          [] f = "email" ->
               {<<>>,
                <<" ">>,
                <<"a","@","b",".","c">>,
                <<" ","a","@","b",".","c"," ">>,
                <<"a","b">>,
                <<"a","@","b">>,
                <<"a","@","b",".">>,
                <<"@","b",".","c">>,
                <<"a","@",".","c">>,
                <<"a"," ","b","@","c",".","d">>,
                <<"a","@","b","@","c",".","d">>,
                <<"a","@","b",".","c",".","d">>}
          [] f = "password" ->
               {<<>>,
                <<"a">>,
                <<"A","b","c","d","e","f","1","!">>,
                <<"A","b","c","d","e","1","!">>,
                <<"a","b","c","d","e","f","g">>,
                <<"a","b","c","d","e","f","g","h">>,
                <<"A","B","C","D","E","F","G","H">>,
                <<"A","b","c","d","e","f","g","h">>,
                <<"A","b","c","d","e","f","g","1">>,
                <<"a","b","c","d","e","f","1","!">>,
                <<"A","B","C","D","E","F","1","!">>,
                <<"1","2","3","4","5","6","7","8">>,
                <<"A","b","c","d","e","f","1","_">>,
                <<"A","b","c","d","e","f"," ","1","?">>}
          [] f = "confirmPassword" ->
               {<<>>,
                <<"A","b","c","d","e","f","1","!">>,
                <<"A","b","c","d","e","f","1">>,
                <<"a","b","c","d","e","f","1","!">>,
                <<" ","A","b","c","d","e","f","1","!">>}
          [] f = "age" ->
               {<<>>,
                <<" ">>,
                <<"1","2">>,
                <<"1","3">>,
                <<"1","2","0">>,
                <<"1","2","1">>,
                <<"0">>,
                <<"-","5">>,
                <<"a","b","c">>,
                <<"1","2","a","b","c">>,
                <<"1","3","a","b","c">>,
                <<"1","3",".","5">>,
                <<"1","2",".","9">>,
                <<"1","e","3">>,
                <<" ","1","3">>,
                <<"+","1","3">>,
                <<"0","x","1","0">>,
                <<"0","x">>}
          [] f = "phone" ->
               {<<>>,
                <<" ">>,
                <<"5","5","5","1","2","3","4","5","6","7">>,
                <<"5","5","5","1","2","3","4","5","6">>,
                <<"(","5","5","5",")"," ","1","2","3","-","4","5","6","7">>,
                <<"5","5","5","-","1","2","3","-","4","5","6">>,
                <<"+","1"," ","5","5","5"," ","1","2","3"," ","4","5","6","7">>,
                <<"1","2","3","4","5","6","7","8","9","0","1","2","3","4","5">>,
                <<"1","2","3","4","5","6","7","8","9","0","1","2","3","4","5","6">>,
                <<"a","b","c">>}]

ValidProfile ==
    [f \in TextFields |->
        CASE f = "fullName" -> <<"J","o">>
          [] f = "email" -> <<"a","@","b",".","c">>
          [] f = "password" -> <<"A","b","c","d","e","f","1","!">>
          [] f = "confirmPassword" -> <<"A","b","c","d","e","f","1","!">>
          [] f = "age" -> <<"1","3">>
          [] f = "phone" -> <<"5","5","5","1","2","3","4","5","6","7">>]

\* ValidProfile with a password that has no upper-case letter, no digit and
\* no special character, and the same text as its confirmation
WeakProfile ==
    [ValidProfile EXCEPT
        !["password"] = <<"a","b","c","d","e","f","g","h">>,
        !["confirmPassword"] = <<"a","b","c","d","e","f","g","h">>]

\* the controls hold a profile with one test input, as typing leaves them:
\* every field neutral, every message empty
InitRules ==
    \E base \in {DefaultValue, ValidProfile, WeakProfile} :
    \E f \in TextFields : \E v \in RuleInputs[f] : \E c \in BOOLEAN :
        InitWith([base EXCEPT ![f] = v], c, AllElements)

\* one handler is applied to the initial state
BlurOnce ==
    last.op = "init" /\ BlurAny

ChangeOnce ==
    last.op = "init" /\ Change

SubmitOnce ==
    last.op = "init" /\ Submit

NextRules ==
    \/ BlurOnce
    \/ ChangeOnce
    \/ SubmitOnce

SpecRules ==
    InitRules /\ [][NextRules]_vars

(* ------------------------------------------------------------------ *)
(* The auto-reset under fairness: a filled form, on which the password *)
(* is edited, fields are validated, the form is submitted and timers   *)
(* fire, in any order                                                  *)
(* ------------------------------------------------------------------ *)

InitReset ==
    \E c \in BOOLEAN : InitWith(ValidProfile, c, AllElements)

InputPassword ==
    \E v \in Typed["password"] \cup {<<>>} : Input("password", v)

NextReset ==
    \/ InputPassword
    \/ BlurAny
    \/ Change
    \/ Submit
    \/ TimerFires

\* the success timer is a setTimeout that nothing cancels: once scheduled
\* it fires
SpecReset ==
    InitReset /\ [][NextReset]_vars /\ WF_vars(TimerFires)

(* ------------------------------------------------------------------ *)
(* Some elements are absent from the page                              *)
(* ------------------------------------------------------------------ *)

\* how many of the elements the constructor looks up may be absent
MaxMissing ==
    1

\* the constructor found all but the elements of miss; the controls that
\* exist hold a profile
InitMissing ==
    \E miss \in {m \in SUBSET AllElements : Cardinality(m) <= MaxMissing} :
    \E base \in {DefaultValue, ValidProfile} : \E c \in BOOLEAN :
        InitWith([f \in TextFields |-> IF f \in miss THEN <<>> ELSE base[f]],
                 IF "terms" \in miss THEN FALSE ELSE c,
                 AllElements \ miss)

InputOnce ==
    last.op = "init" /\ InputAny

NextMissing ==
    \/ InputOnce
    \/ BlurOnce
    \/ ChangeOnce
    \/ SubmitOnce
    \/ TimerFires

SpecMissing ==
    InitMissing /\ [][NextMissing]_vars

(* ------------------------------------------------------------------ *)
(* Properties                                                          *)
(* ------------------------------------------------------------------ *)

\* field f's rule is Valid on the current values
RuleValid(f) ==
    RuleMessage(Cur, f) = ""

\* the handler that ran last evaluated field f's rule and returned
Evaluated(f) ==
    /\ ~last.thrown
    /\ \/ last.op \in {"blur", "change"} /\ last.field = f
       \/ last.op = "submit"

\* the first field, in form order, whose rule is Invalid on the current values
FirstInvalid ==
    LET idx == {i \in 1..Len(FieldOrder) : ~RuleValid(FieldOrder[i])}
    IN  IF idx = {} THEN "none"
        ELSE FieldOrder[CHOOSE i \in idx : \A j \in idx : i <= j]

\* C1: a submit in which validateAll returns false leaves the form view
\* displayed and the success view hidden, and schedules no auto-reset.
C1_FailedSubmitKeepsForm ==
    [][(/\ last'.op = "submit"
        /\ ~last'.ret
        /\ ~last'.thrown
        /\ formDisplay # "none"
        /\ successDisplay # "block")
       => (/\ formDisplay' # "none"
           /\ successDisplay' # "block"
           /\ timers' = timers)]_vars

\* C2: a blur or change validation of one field leaves the views, the
\* timers and every other field's value, visual state and message as they
\* were.
C2_FieldValidationFrame ==
    [][(last'.op \in {"blur", "change"} /\ ~last'.thrown)
       => (/\ formDisplay' = formDisplay
           /\ successDisplay' = successDisplay
           /\ timers' = timers
           /\ \A g \in Fields \ {last'.field} :
                /\ classList'[g] = classList[g]
                /\ textContent'[g] = textContent[g]
           /\ \A g \in TextFields \ {last'.field} : value'[g] = value[g]
           /\ (last'.field # "terms" => checked' = checked))]_vars

\* C3: a field whose rule evaluated Valid in the handler that just returned
\* does not carry the error state and its message slot is empty.
C3_ValidFieldShowsNoError ==
    \A f \in Fields :
        (Evaluated(f) /\ RuleValid(f))
            => ("error" \notin classList[f] /\ textContent[f] = "")

\* C4: validateAll returns true exactly when all seven rules are Valid on
\* the values current at the call.
C4_AllValidIffEveryRuleValid ==
    (last.op = "submit" /\ ~last.thrown)
        => (last.ret <=> \A f \in Fields : RuleValid(f))

C4_Witness ==
    /\ last.op = "submit"
    /\ last.ret
    /\ \A f \in Fields : RuleValid(f)

\* C5: when validateAll returns, every field whose rule is Invalid on the
\* current values shows the error state with its own non-empty message,
\* whichever earlier fields failed.
C5_EveryInvalidFieldReported ==
    (last.op = "submit" /\ ~last.thrown)
        => \A f \in Fields :
             ~RuleValid(f)
                => /\ "error" \in classList[f]
                   /\ textContent[f] # ""
                   /\ textContent[f] = RuleMessage(Cur, f)

C5_Witness ==
    /\ last.op = "submit"
    /\ ~last.ret
    /\ ~RuleValid("fullName")
    /\ RuleValid("email")
    /\ ~RuleValid("terms")
    /\ "error" \in classList["terms"]
    /\ textContent["terms"] = "You must agree to the Terms and Conditions"

\* the ordered sub-rules of each text field on the current values: whether
\* each is violated, and the message that reports it
SubRules(f) ==
    CASE f = "fullName" ->
           LET v == trim(value[f])
           IN  << [bad |-> v = <<>>, msg |-> "Full name is required"],
                  [bad |-> Len(v) < 2, msg |-> "Full name must be at least 2 characters"],
                  [bad |-> \E i \in 1..Len(v) :
                              v[i] \notin (UpperCase \cup LowerCase \cup WhiteSpace),
                   msg |-> "Full name can only contain letters and spaces"] >>
      [] f = "email" ->
           LET v == trim(value[f])
           IN  << [bad |-> v = <<>>, msg |-> "Email address is required"],
                  [bad |-> ~emailRegexTest(v), msg |-> "Please enter a valid email address"] >>
      [] f = "password" ->
           LET v == value[f]
               Lacks(class) == \A i \in 1..Len(v) : v[i] \notin class
           IN  << [bad |-> v = <<>>, msg |-> "Password is required"],
                  [bad |-> Len(v) < 8, msg |-> "Password must be at least 8 characters long"],
                  [bad |-> Lacks(UpperCase),
                   msg |-> "Password must contain at least one uppercase letter"],
                  [bad |-> Lacks(LowerCase),
                   msg |-> "Password must contain at least one lowercase letter"],
                  [bad |-> Lacks(Digit),
                   msg |-> "Password must contain at least one number"],
                  [bad |-> Lacks(SpecialChar),
                   msg |-> "Password must contain at least one special character"] >>
      [] f = "confirmPassword" ->
           << [bad |-> value[f] = <<>>, msg |-> "Please confirm your password"],
              [bad |-> value[f] # value["password"], msg |-> "Passwords do not match"] >>
      [] f = "age" ->
           LET n == parseInt(value[f])
           IN  << [bad |-> value[f] = <<>>, msg |-> "Age is required"],
                  [bad |-> n.nan, msg |-> "Please enter a valid age"],
                  [bad |-> ~n.nan /\ n.n < 13, msg |-> "You must be at least 13 years old"],
                  [bad |-> ~n.nan /\ n.n > 120, msg |-> "Please enter a valid age"] >>
      [] f = "phone" ->
           LET v == trim(value[f])
               digits == Cardinality({i \in 1..Len(v) : v[i] \in Digit})
           IN  << [bad |-> v # <<>> /\ digits < 10,
                   msg |-> "Phone number must have at least 10 digits"],
                  [bad |-> v # <<>> /\ digits > 15, msg |-> "Phone number is too long"] >>

\* the message of the first violated sub-rule of f, "" when none is violated
FirstViolated(f) ==
    LET idx == {i \in 1..Len(SubRules(f)) : SubRules(f)[i].bad}
    IN  IF idx = {} THEN ""
        ELSE SubRules(f)[CHOOSE i \in idx : \A j \in idx : i <= j].msg

\* C6: the message a text field's validation displays is the message of the
\* first violated sub-rule in the field's fixed order, even when later
\* sub-rules are violated too (and none when no sub-rule is violated, the
\* slot being empty before the validation).
C6_FirstFailureWins ==
    \A f \in TextFields :
        Evaluated(f) => textContent[f] = FirstViolated(f)

C6_Witness ==
    /\ last.op = "blur"
    /\ last.field = "password"
    /\ value["password"] = <<"a">>
    /\ Cardinality({i \in 1..Len(SubRules("password")) : SubRules("password")[i].bad}) >= 2
    /\ textContent["password"] = "Password must be at least 8 characters long"

\* the number of digits of text s
DigitCount(s) ==
    Cardinality({i \in 1..Len(s) : s[i] \in Digit})

\* the blur validation of field f has just returned
Blurred(f) ==
    last.op = "blur" /\ last.field = f /\ ~last.thrown

\* C7: validateAge is Valid for 13 and 120 and Invalid for 12 and 121;
\* validatePassword is Valid for a length-8 password with the four character
\* classes and Invalid for every length-7 password; validatePhone is Valid
\* with 10 to 15 digits, Invalid with 9 and with 16, and Valid when empty.
C7_Boundaries ==
    /\ Blurred("age") =>
         /\ value["age"] \in {<<"1","3">>, <<"1","2","0">>} => last.ret
         /\ value["age"] \in {<<"1","2">>, <<"1","2","1">>} => ~last.ret
    /\ Blurred("password") =>
         LET v == value["password"]
         IN  /\ (/\ Len(v) = 8
                 /\ TestClass(UpperCase, v)
                 /\ TestClass(LowerCase, v)
                 /\ TestClass(Digit, v)
                 /\ TestClass(SpecialChar, v)) => last.ret
             /\ Len(v) = 7 => ~last.ret
    /\ Blurred("phone") =>
         LET v == value["phone"]
         IN  /\ DigitCount(v) \in 10..15 => last.ret
             /\ DigitCount(v) \in {9, 16} => ~last.ret
             /\ v = <<>> => last.ret

C7_Witness ==
    /\ Blurred("age")
    /\ value["age"] = <<"1","2","0">>
    /\ last.ret

\* every control is back to its default and neutral, every message is
\* empty, the form is displayed and the success view hidden
AllReset ==
    /\ value = DefaultValue
    /\ checked = FALSE
    /\ \A f \in Fields : classList[f] = {} /\ textContent[f] = ""
    /\ formDisplay = "block"
    /\ successDisplay = "none"

\* C8: every successful submit is eventually followed by the firing of a
\* reset timer, and the state a reset timer leaves has all seven fields
\* empty and neutral, all messages empty, the form displayed and the
\* success view hidden.
C8_ResetAfterSuccess ==
    /\ [][last'.op = "timer" => AllReset']_vars
    /\ (last.op = "submit" /\ last.ret /\ ~last.thrown)
           ~> (last.op = "timer" /\ AllReset)

C8_Witness ==
    /\ last.op = "submit"
    /\ last.ret
    /\ timers > 0
    /\ successDisplay = "block"
    /\ \E f \in Fields : textContent[f] # ""

\* C9: on a submit where validateAll returns false, the field focused is
\* the first field in form order whose rule evaluated Invalid.
C9_FocusFirstInvalid ==
    (last.op = "submit" /\ ~last.ret /\ ~last.thrown)
        => last.focus = FirstInvalid

\* C10: whichever elements are absent, no handler raises an error.
C10_MissingElementTolerated ==
    ~last.thrown

\* C11: in every reachable state a field that displays the error state with
\* a message is a field whose rule, on the current values, is Invalid with
\* exactly that message.
C11_NoStaleError ==
    \A f \in Fields :
        ("error" \in classList[f] /\ textContent[f] # "")
            => RuleMessage(Cur, f) = textContent[f]

(* ------------------------------------------------------------------ *)
(* Editing and validating: the phone, the age and the confirmation are *)
(* edited, to valid and to invalid text, between blurs, toggles,       *)
(* submits and timer completions                                       *)
(* ------------------------------------------------------------------ *)

Edited ==
    [f \in TextFields |->
        CASE f = "confirmPassword" -> {<<"A","b","c","d","e","f","1">>}
          [] f = "age" -> {<<"1","2">>}
          [] f = "phone" -> {<<"a","b","c">>, <<"5","5","5","1","2","3","4","5","6","7">>}
          [] OTHER -> {}]

InitClear ==
    \E c \in BOOLEAN : InitWith(DefaultValue, c, AllElements)

InputEdited ==
    \E f \in TextFields : \E v \in Edited[f] \cup {<<>>} : Input(f, v)

NextClear ==
    \/ InputEdited
    \/ BlurAny
    \/ Change
    \/ Submit
    \/ TimerFires

SpecClear ==
    InitClear /\ [][NextClear]_vars

\* C12 as stated, its last clause: a blur or a submit never runs clearError
C12_OnlyOnInput ==
    last.op \in {"blur", "submit"} => cleared = {}

\* the input step on field f leaves every class, message and view as it
\* was, but for f, which ends with no class and no message
InputFrame(f) ==
    /\ classList' = [classList EXCEPT ![f] = {}]
    /\ textContent' = [textContent EXCEPT ![f] = ""]
    /\ formDisplay' = formDisplay
    /\ successDisplay' = successDisplay
    /\ timers' = timers
    /\ checked' = checked
    /\ cleared' = {f}

\* C12 (amended): an input event on a text field runs clearError for that
\* field alone: the field ends neutral with an empty message whatever its
\* rule would say, every other field's class and message and both views stay
\* as they were.  A blur runs clearError only for the phone when its trimmed
\* value is empty; a submit only for that phone and for the checked terms
\* box; neither ever takes a displayed error away.
C12_ClearFieldError ==
    [][/\ last'.op = "input" => InputFrame(last'.field)
       /\ last'.op = "blur" =>
            cleared' = IF last'.field = "phone" /\ trim(value'["phone"]) = <<>>
                         THEN {"phone"} ELSE {}
       /\ last'.op = "submit" =>
            cleared' = {f \in {"phone"} : trim(value'[f]) = <<>>}
                         \cup {f \in {"terms"} : checked'}
       /\ last'.op \in {"blur", "submit"} =>
            \A f \in Fields : "error" \in classList[f] => "error" \in classList'[f]
      ]_vars

\* an input event on the phone, which showed an error and now holds text its
\* rule rejects, while another field shows an error
C12_Witness ==
    /\ last.op = "input"
    /\ last.field = "phone"
    /\ phoneRule(value["phone"]) # ""
    /\ classList["phone"] = {}
    /\ textContent["phone"] = ""
    /\ "error" \in classList["age"]
    /\ textContent["age"] # ""

\* C13: validateConfirmPassword returns true exactly when the confirmation is
\* non-empty and equal, character for character, to the current password,
\* whatever the password's own rule says of it; otherwise the confirmation
\* shows 'Please confirm your password' when empty and 'Passwords do not
\* match' when different.  With password "Abcdef1!" and confirmation
\* "Abcdef1" the confirmation is rejected as a mismatch while the password
\* passes its rule.
C13_ConfirmEqualsPassword ==
    /\ Blurred("confirmPassword") =>
         /\ last.ret <=> (/\ value["confirmPassword"] # <<>>
                          /\ value["confirmPassword"] = value["password"])
         /\ ~last.ret =>
              /\ "error" \in classList["confirmPassword"]
              /\ textContent["confirmPassword"] =
                   IF value["confirmPassword"] = <<>>
                     THEN "Please confirm your password"
                     ELSE "Passwords do not match"
    /\ (/\ last.op = "submit"
        /\ value["password"] = <<"A","b","c","d","e","f","1","!">>
        /\ value["confirmPassword"] = <<"A","b","c","d","e","f","1">>) =>
         /\ "error" \in classList["confirmPassword"]
         /\ textContent["confirmPassword"] = "Passwords do not match"
         /\ "error" \notin classList["password"]
         /\ textContent["password"] = ""

\* the confirmation of a password that fails its own rule is accepted
C13_Witness ==
    /\ Blurred("confirmPassword")
    /\ last.ret
    /\ passwordRule(value["password"]) # ""

(* ------------------------------------------------------------------ *)
(* One submit of a form in which every field, on its own, holds either *)
(* text its rule accepts or text it rejects; the password is strong or *)
(* weak and the confirmation repeats either                            *)
(* ------------------------------------------------------------------ *)

Filled ==
    [f \in TextFields |->
        CASE f = "fullName" -> {ValidProfile[f], <<>>}
          [] f = "email" -> {ValidProfile[f], <<"a","b">>}
          [] f = "password" -> {ValidProfile[f], WeakProfile[f]}
          [] f = "confirmPassword" -> {ValidProfile[f], WeakProfile[f]}
          [] f = "age" -> {ValidProfile[f], <<"1","2">>}
          [] f = "phone" -> {<<>>, <<"a","b","c">>}]

InitOrder ==
    \E vals \in [TextFields -> UNION {Filled[f] : f \in TextFields}] :
    \E c \in BOOLEAN :
        /\ \A f \in TextFields : vals[f] \in Filled[f]
        /\ InitWith(vals, c, AllElements)

SpecOrder ==
    InitOrder /\ [][SubmitOnce]_vars

\* every order in which the seven validators can be called
Orders ==
    {[i \in 1..Len(FieldOrder) |-> p[FieldOrder[i]]] : p \in Permutations(Fields)}

RECURSIVE ValidateInOrder(_, _, _)
\* the calls of validateAllFields made in the order o instead of FieldOrder
ValidateInOrder(acc, o, i) ==
    IF acc.thrown \/ i > Len(FieldOrder) THEN acc
    ELSE ValidateInOrder(Collect(acc, validateField(acc.st, o[i])), o, i + 1)

\* what the run a of the validators in order o reports: the boolean, the
\* value returned for each field, each field's class and message
Outcome(a, o) ==
    [ret |-> a.ret,
     byField |-> [f \in Fields |->
                    \E i \in 1..Len(a.validations) : o[i] = f /\ a.validations[i]],
     classList |-> a.st.classList,
     textContent |-> a.st.textContent]

OutcomeInOrder(s, o) ==
    Outcome(every(ValidateInOrder([st |-> s, validations |-> <<>>, thrown |-> FALSE], o, 1)), o)

\* the outcome p is what the submit just left on the page, and what every
\* order of the calls gives
AllOrdersGive(p) ==
    /\ p.ret = last'.ret
    /\ p.classList = classList'
    /\ p.textContent = textContent'
    /\ \A f \in Fields : p.byField[f] <=> (RuleMessage(Cur, f) = "")
    /\ \A o \in Orders : OutcomeInOrder(Cur, o) = p

\* C14: on a submit, running the seven validators in any other order would
\* have given the same boolean, the same returned value for each field and
\* the same class and message on each field as the submit gave.
C14_OrderIndependent ==
    [][last'.op = "submit" => AllOrdersGive(OutcomeInOrder(Cur, FieldOrder))]_vars

\* a submit on which four fields fail, among them the confirmation, whose
\* rule reads the password
C14_Witness ==
    /\ last.op = "submit"
    /\ ~last.ret
    /\ "error" \in classList["confirmPassword"]
    /\ "error" \in classList["password"]
    /\ Cardinality({f \in Fields : "error" \in classList[f]}) >= 4
    /\ Cardinality({f \in Fields : "error" \notin classList[f]}) >= 2

\* C15 as stated: a change of the terms checkbox only clears the terms
\* field's error display, so that no change leaves the field in the error
\* state.
C15_ChangeOnlyClears ==
    last.op = "change" =>
        /\ "error" \notin classList["terms"]
        /\ textContent["terms"] = ""

\* C15 (amended): a change of the terms checkbox re-runs the terms rule on
\* the new value of the box: unchecking it puts the terms field in the
\* error state with 'You must agree to the Terms and Conditions', checking
\* it leaves the field neutral with an empty message.
C15_ChangeRunsRule ==
    last.op = "change" =>
        /\ last.ret = checked
        /\ cleared = IF checked THEN {"terms"} ELSE {}
        /\ classList["terms"] = IF checked THEN {} ELSE {"error"}
        /\ textContent["terms"] = termsRule(checked)

\* the box has just been unchecked
C15_Witness ==
    /\ last.op = "change"
    /\ ~checked
    /\ "error" \in classList["terms"]
    /\ textContent["terms"] = "You must agree to the Terms and Conditions"

\* C16: a scheduled reset timer is never cancelled and fires once: the
\* number of pending timers goes down only when one of them fires, by one
\* each time, and then the form is reset and every error displayed at that
\* moment is cleared, whenever it was produced; no timer stays pending for
\* ever, whatever events come in between: again and again either none is
\* pending or one fires.
C16_TimerFiresOnce ==
    /\ [][timers' < timers =>
            /\ last'.op = "timer"
            /\ timers' = timers - 1
            /\ AllReset']_vars
    /\ ([]<>(timers = 0) \/ []<><<TimerFires>>_vars)

\* a timer is pending and a blur that came after it was scheduled has just
\* put a field in the error state
C16_Witness ==
    /\ timers > 0
    /\ last.op = "blur"
    /\ ~last.ret
    /\ "error" \in classList[last.field]
    /\ textContent[last.field] # ""

\* text that, as a whole, is a decimal integer numeral: digits only, after
\* an optional sign, with blanks allowed around it
Unsigned(t) ==
    IF t # <<>> /\ t[1] \in {"+", "-"} THEN Tail(t) ELSE t

IsIntegerNumeral(raw) ==
    /\ Unsigned(trim(raw)) # <<>>
    /\ \A i \in 1..Len(Unsigned(trim(raw))) : Unsigned(trim(raw))[i] \in Digit

\* C17: validateAge returns true only for text that as a whole is an integer
\* numeral; text that is not one (digits followed by letters, a decimal
\* fraction) is rejected with 'Please enter a valid age'.
C17_AgeIsWholeNumeral ==
    Blurred("age") =>
        /\ last.ret => IsIntegerNumeral(value["age"])
        /\ (value["age"] # <<>> /\ ~IsIntegerNumeral(value["age"])) =>
             /\ ~last.ret
             /\ textContent["age"] = "Please enter a valid age"

\* C18: at most one reset timer is pending at any time, and a timer is
\* scheduled only by a submit whose validateAllFields returned true, one
\* timer per such submit.
C18_OneResetTimer ==
    [][/\ timers' <= 1
       /\ timers' > timers =>
            /\ last'.op = "submit"
            /\ last'.ret
            /\ timers' = timers + 1]_vars

(* ------------------------------------------------------------------ *)
(* FAQSection.  Every question names, with data-target, an answer of   *)
(* its own, which the page may lack; an answer is identified by the    *)
(* question that names it.                                             *)
(* ------------------------------------------------------------------ *)

\* the class lists of the FAQ section as one record
CurFAQ ==
    [questions |-> questionActive, answers |-> answerActive, found |-> faqAnswers]

\* classList.toggle('active') on element e of the set of active elements
Toggle(active, e) ==
    IF e \in active THEN active \ {e} ELSE active \cup {e}

\* the forEach of toggleFAQ: every question but the clicked one, and its
\* answer when getElement finds it, loses 'active'
CloseOthers(s, clickedQuestion) ==
    [s EXCEPT
        !.questions = @ \ (faqQuestions \ {clickedQuestion}),
        !.answers = @ \ ((faqQuestions \ {clickedQuestion}) \cap s.found)]

\* the two toggles that end toggleFAQ
ToggleClicked(s, clickedQuestion) ==
    [s EXCEPT
        !.questions = Toggle(@, clickedQuestion),
        !.answers = IF clickedQuestion \in s.found THEN Toggle(@, clickedQuestion) ELSE @]

\* toggleFAQ without its loop over the other questions
toggleFAQKeepOthers(s, clickedQuestion) ==
    ToggleClicked(s, clickedQuestion)

toggleFAQ(s, clickedQuestion) ==
    ToggleClicked(CloseOthers(s, clickedQuestion), clickedQuestion)

\* the constructor found the questions; at most one FAQ is open: its
\* question is active, and so is its answer when the page has it
InitFAQ ==
    /\ faqAnswers \in SUBSET faqQuestions
    /\ questionActive \in {{}} \cup {{q} : q \in faqQuestions}
    /\ answerActive = questionActive \cap faqAnswers
    /\ faqLast = [op |-> "init", question |-> 0, wasActive |-> FALSE,
                  othersActive |-> FALSE]
    /\ FormWith(DefaultValue, FALSE, AllElements)
    /\ CounterZero
    /\ TabsIdle
    /\ ThemeLoaded("null", {"themeToggle", "themeIcon"})

\* the click listener of question q ran and left the class lists r
Clicked(q, r) ==
    /\ questionActive' = r.questions
    /\ answerActive' = r.answers
    /\ faqAnswers' = faqAnswers
    /\ faqLast' = [op |-> "click", question |-> q, wasActive |-> q \in questionActive,
                   othersActive |-> questionActive \ {q} # {}]
    /\ UNCHANGED <<formVars, counterVars, tabVars, themeVars>>

\* a click on question q
ClickFAQ ==
    \E q \in faqQuestions : Clicked(q, toggleFAQ(CurFAQ, q))

SpecFAQ ==
    InitFAQ /\ [][ClickFAQ]_vars

\* C19: at most one question is active, and the only answer that can be
\* active is the answer of the active question; a click on a closed question
\* leaves it, and its answer, the only active ones; a click on the open
\* question leaves nothing active.
C19_Accordion ==
    /\ Cardinality(questionActive) <= 1
    /\ answerActive = questionActive \cap faqAnswers
    /\ faqLast.op = "click" =>
         questionActive = IF faqLast.wasActive THEN {} ELSE {faqLast.question}

\* a closed question with an answer was clicked while another one was open
\* (the clicked one is now the only open one)
C19_Witness ==
    /\ faqLast.op = "click"
    /\ ~faqLast.wasActive
    /\ faqLast.othersActive
    /\ questionActive = {faqLast.question}
    /\ answerActive = {faqLast.question}

(* ------------------------------------------------------------------ *)
(* CounterGame.  Messages are sequences of characters, written without *)
(* the pictograph that opens each of them in the source.               *)
(* ------------------------------------------------------------------ *)

Reached10 ==
    <<"Y","o","u"," ","r","e","a","c","h","e","d"," ","1","0","!"," ","G","r","e","a","t"," ","j","o","b","!">>

Hit25 ==
    <<"A","m","a","z","i","n","g","!"," ","Y","o","u"," ","h","i","t"," ","2","5","!">>

HalfCentury ==
    <<"F","a","n","t","a","s","t","i","c","!"," ","H","a","l","f"," ","c","e","n","t","u","r","y","!">>

Centurion ==
    <<"C","e","n","t","u","r","i","o","n","!"," ","Y","o","u"," ","m","a","d","e"," ","i","t"," ","t","o"," ","1","0","0","!">>

GoingNegative ==
    <<"G","o","i","n","g"," ","n","e","g","a","t","i","v","e","!">>

BackToZero ==
    <<"B","a","c","k"," ","t","o"," ","z","e","r","o","!">>

CounterReset ==
    <<"C","o","u","n","t","e","r"," ","r","e","s","e","t","!">>

\* message.includes(sub)
includes(message, sub) ==
    \E i \in 1..(Len(message) - Len(sub) + 1) :
        SubSeq(message, i, i + Len(sub) - 1) = sub

\* the counter's fields and the DOM properties it writes, as one record
CurCounter ==
    [count |-> count, counterValue |-> counterValue,
     counterMessage |-> counterMessage, messageTimers |-> messageTimers,
     transform |-> transform, scaleTimers |-> scaleTimers]

updateDisplay(c) ==
    [c EXCEPT !.counterValue = c.count]

\* the message showMessage picks for the current count
messageFor(n) ==
    IF n = 10 THEN Reached10
    ELSE IF n = 25 THEN Hit25
    ELSE IF n = 50 THEN HalfCentury
    ELSE IF n = 100 THEN Centurion
    ELSE IF n < 0 THEN GoingNegative
    ELSE IF n = 0 THEN BackToZero
    ELSE <<>>

showMessage(c) ==
    [c EXCEPT
        !.counterMessage = messageFor(c.count),
        !.messageTimers =
            IF messageFor(c.count) # <<>>
               /\ ~includes(messageFor(c.count), <<"n","e","g","a","t","i","v","e">>)
              THEN @ + 1 ELSE @]

animateCounter(c) ==
    [c EXCEPT !.transform = "scale(1.2)", !.scaleTimers = @ + 1]

increment(c) ==
    animateCounter(showMessage(updateDisplay([c EXCEPT !.count = @ + 1])))

decrement(c) ==
    animateCounter(showMessage(updateDisplay([c EXCEPT !.count = @ - 1])))

\* reset(): the message is written, then counterValue animated, then the
\* clearing scheduled
reset(c) ==
    [animateCounter([updateDisplay([c EXCEPT !.count = 0])
                        EXCEPT !.counterMessage = CounterReset])
        EXCEPT !.messageTimers = @ + 1]

\* the keys told apart by the switch of handleKeyboard, and one other key
Keys ==
    {"+", "=", "-", "0", "a"}

handleKeyboard(c, key, ctrlKey) ==
    IF key \in {"+", "="} THEN increment(c)
    ELSE IF key = "-" THEN decrement(c)
    ELSE IF key = "0" /\ ctrlKey THEN reset(c)
    ELSE c

\* the count is kept within these bounds, and so are the pending callbacks
MaxBelowZero ==
    2

MaxCount ==
    11

MaxMessageTimers ==
    3

MaxScaleTimers ==
    2

\* a counter listener or callback ran and left the record c
CounterBecomes(op, c) ==
    /\ c.count \in -MaxBelowZero..MaxCount
    /\ c.messageTimers <= MaxMessageTimers
    /\ c.scaleTimers <= MaxScaleTimers
    /\ count' = c.count
    /\ counterValue' = c.counterValue
    /\ counterMessage' = c.counterMessage
    /\ messageTimers' = c.messageTimers
    /\ transform' = c.transform
    /\ scaleTimers' = c.scaleTimers
    /\ counterLast' = op
    /\ UNCHANGED <<formVars, faqVars, tabVars, themeVars>>

ClickIncrement ==
    CounterBecomes("increment", increment(CurCounter))

ClickDecrement ==
    CounterBecomes("decrement", decrement(CurCounter))

ClickReset ==
    CounterBecomes("reset", reset(CurCounter))

KeyDown ==
    \E key \in Keys : \E ctrlKey \in BOOLEAN :
        CounterBecomes("keydown", handleKeyboard(CurCounter, key, ctrlKey))

\* a pending callback of showMessage or reset empties the message
MessageTimerFires ==
    /\ messageTimers > 0
    /\ CounterBecomes("messageTimer",
            [CurCounter EXCEPT !.counterMessage = <<>>, !.messageTimers = @ - 1])

\* a pending callback of animateCounter sets the scale back
ScaleTimerFires ==
    /\ scaleTimers > 0
    /\ CounterBecomes("scaleTimer",
            [CurCounter EXCEPT !.transform = "scale(1)", !.scaleTimers = @ - 1])

InitCounter ==
    /\ FormWith(DefaultValue, FALSE, AllElements)
    /\ FAQClosed
    /\ CounterZero
    /\ TabsIdle
    /\ ThemeLoaded("null", {"themeToggle", "themeIcon"})

NextCounter ==
    \/ ClickIncrement
    \/ ClickDecrement
    \/ ClickReset
    \/ KeyDown
    \/ MessageTimerFires
    \/ ScaleTimerFires

SpecCounter ==
    InitCounter /\ [][NextCounter]_vars

\* C20: while the count is negative the message is 'Going negative!': no
\* pending message-clearing callback, whichever operation scheduled it,
\* takes it away before the next counter operation.
C20_NegativeMessageStays ==
    count < 0 => counterMessage = GoingNegative

(* ------------------------------------------------------------------ *)
(* TabbedInterface.  Button b names, with data-tab, the panel of id b,  *)
(* which the page may lack; the page may have one more panel, of id 0.  *)
(* ------------------------------------------------------------------ *)

\* the class lists of the tabs as one record
CurTabs ==
    [buttons |-> buttonActive, panels |-> panelActive, found |-> tabPanels]

\* switchTab without the forEach over this.tabPanels
switchTabKeepPanels(s, clickedButton) ==
    [s EXCEPT
        !.buttons = {clickedButton},
        !.panels = IF clickedButton \in s.found THEN @ \cup {clickedButton} ELSE @]

\* switchTab: 'active' is removed from every button and every panel, then
\* added to the clicked button and to the element getElement finds
switchTab(s, clickedButton) ==
    [s EXCEPT
        !.buttons = (@ \ tabButtons) \cup {clickedButton},
        !.panels = IF clickedButton \in s.found
                     THEN (@ \ s.found) \cup {clickedButton}
                     ELSE @ \ s.found]

\* the constructor found the buttons and the panels, any of which the
\* markup may have made active
InitTabs ==
    /\ tabPanels \in SUBSET PanelIds
    /\ buttonActive \in SUBSET tabButtons
    /\ panelActive \in SUBSET tabPanels
    /\ tabLast = [op |-> "init", button |-> 0, othersActive |-> FALSE]
    /\ FormWith(DefaultValue, FALSE, AllElements)
    /\ FAQClosed
    /\ CounterZero
    /\ ThemeLoaded("null", {"themeToggle", "themeIcon"})

\* the click listener of button b ran and left the class lists r
TabClicked(b, r) ==
    /\ buttonActive' = r.buttons
    /\ panelActive' = r.panels
    /\ tabPanels' = tabPanels
    /\ tabLast' = [op |-> "click", button |-> b,
                   othersActive |-> buttonActive \ {b} # {} /\ panelActive \ {b} # {}]
    /\ UNCHANGED <<formVars, faqVars, counterVars, themeVars>>

\* a click on a tab button
ClickTab ==
    \E b \in tabButtons : TabClicked(b, switchTab(CurTabs, b))

SpecTabs ==
    InitTabs /\ [][ClickTab]_vars

\* C21: after a click on a tab button, that button is the only button that
\* is active, and the only panel that can be active is the panel the button
\* names: it is active when the page has it, and no panel is otherwise.
C21_OneTabActive ==
    tabLast.op = "click" =>
        /\ buttonActive = {tabLast.button}
        /\ panelActive = {tabLast.button} \cap tabPanels

\* a button whose panel the page lacks was clicked while another button and
\* another panel were active: no panel is active now
C21_Witness ==
    /\ tabLast.op = "click"
    /\ tabLast.othersActive
    /\ tabLast.button \notin tabPanels
    /\ buttonActive = {tabLast.button}
    /\ panelActive = {}

(* ------------------------------------------------------------------ *)
(* ThemeToggle.  localStorage is shared with the other tabs and the     *)
(* other scripts of the origin, which can store any string under the   *)
(* same key, and the user can clear it.  The two pictographs of the    *)
(* icon are written "moon" and "sun".                                  *)
(* ------------------------------------------------------------------ *)

\* what localStorage.getItem('theme') can return: null, written "null",
\* what toggleTheme stores, the empty string and some other string
StoredValues ==
    {"null", "light", "dark", "", "blue"}

\* the theme's field, the storage and the DOM properties it writes
CurTheme ==
    [stored |-> themeStored, currentTheme |-> currentTheme,
     dataTheme |-> dataTheme, iconText |-> themeIconText,
     ariaLabel |-> ariaLabel, present |-> themePresent]

applyTheme(t, theme) ==
    [t EXCEPT
        !.dataTheme = theme,
        !.iconText =
            IF "themeIcon" \notin t.present THEN @
            ELSE IF theme = "light" THEN "moon" ELSE "sun",
        !.ariaLabel =
            IF "themeToggle" \notin t.present THEN @
            ELSE IF theme = "light" THEN "Switch to dark mode"
            ELSE "Switch to light mode"]

\* the theme toggleTheme switches to
flipped(theme) ==
    IF theme = "light" THEN "dark" ELSE "light"

\* toggleTheme without localStorage.setItem
toggleThemeUnsaved(t) ==
    applyTheme([t EXCEPT !.currentTheme = flipped(t.currentTheme)],
               flipped(t.currentTheme))

toggleTheme(t) ==
    [applyTheme([t EXCEPT !.currentTheme = flipped(t.currentTheme)],
                flipped(t.currentTheme))
        EXCEPT !.stored = flipped(t.currentTheme)]

\* the page is loaded with any stored value and any of its two elements
InitTheme ==
    /\ \E stored \in StoredValues :
       \E found \in SUBSET {"themeToggle", "themeIcon"} :
           ThemeLoaded(stored, found)
    /\ FormWith(DefaultValue, FALSE, AllElements)
    /\ FAQClosed
    /\ CounterZero
    /\ TabsIdle

\* a theme event op happened and left the record t
ThemeBecomes(op, t) ==
    /\ themeStored' = t.stored
    /\ currentTheme' = t.currentTheme
    /\ dataTheme' = t.dataTheme
    /\ themeIconText' = t.iconText
    /\ ariaLabel' = t.ariaLabel
    /\ themePresent' = t.present
    /\ themeLast' = [op |-> op, previous |-> currentTheme,
                     storedBefore |-> themeStored]
    /\ UNCHANGED <<formVars, faqVars, counterVars, tabVars>>

\* a click on themeToggle, when the page has it
ClickTheme ==
    /\ "themeToggle" \in themePresent
    /\ ThemeBecomes("toggle", toggleTheme(CurTheme))

\* another tab or script stores a value, or the user clears the storage
StorageChanged ==
    \E v \in StoredValues \ {themeStored} :
        ThemeBecomes("storage", [CurTheme EXCEPT !.stored = v])

NextTheme ==
    \/ ClickTheme
    \/ StorageChanged

SpecTheme ==
    InitTheme /\ [][NextTheme]_vars

====
